---------------------------- MODULE Spec2Model ----------------------------
(* A model of the field-extraction pipeline of extract_company_info:       *)
(* the normalizers of utils.py and the record builder and batch driver of  *)
(* main.py.                                                                *)
(*                                                                         *)
(* A Python str is a sequence of one-character strings.  A character that  *)
(* is not ASCII is written by its code point: "U+0442" is CYRILLIC SMALL   *)
(* LETTER TE, "U+00A0" is NO-BREAK SPACE.                                  *)
EXTENDS Naturals, Sequences, FiniteSets

VARIABLES
    pc,               \* where the program is
    phones,           \* clean_phone_number: its argument
    phones_out,       \* clean_phone_number(phones)
    phones_again,     \* clean_phone_number(phones_out)
    emails,           \* clean_emails: its argument
    emails_out,       \* clean_emails(emails)
    emails_again,     \* clean_emails(emails_out)
    texts,            \* main.py: the rows of the page
    row,              \* extract_companies_info: the index of the row in work
    extracted_emails, \* extract_single_company_info: the texts of email_ents
    ents,             \* extract_single_company_info: the second response
    extracted,        \* extract_single_company_info: the candidates by key
    acc,              \* extract_companies_info: the list being built
    data,             \* main: the list extract_companies_info returned
    csv,              \* fsc_companies_ner.csv: whether written, and its rows
    calls             \* the invocations of model.predict_entities so far

normVars == <<phones, phones_out, phones_again, emails, emails_out, emails_again>>
pipeVars == <<texts, row, extracted_emails, ents, extracted, acc, data, csv, calls>>
vars == <<pc, normVars, pipeVars>>

Range(s) == {s[i] : i \in 1..Len(s)}

(***************************************************************************)
(* Characters                                                              *)
(***************************************************************************)
Digits == {"0", "1", "2", "3", "4", "5", "6", "7", "8", "9"}

NBSP == "U+00A0"

\* str.lower() on one character, for the letters the model's texts use.
Lower(c) ==
    CASE c = "A" -> "a" [] c = "B" -> "b" [] c = "E" -> "e" [] c = "F" -> "f"
      [] c = "I" -> "i" [] c = "L" -> "l" [] c = "M" -> "m" [] c = "S" -> "s"
      [] c = "W" -> "w" [] c = "X" -> "x"
      [] c = "U+0422" -> "U+0442"   \* TE
      [] c = "U+0415" -> "U+0435"   \* IE
      [] c = "U+041B" -> "U+043B"   \* EL
      [] c = "U+0424" -> "U+0444"   \* EF
      [] c = "U+0410" -> "U+0430"   \* A
      [] c = "U+041A" -> "U+043A"   \* KA
      [] c = "U+0421" -> "U+0441"   \* ES
      [] OTHER -> c

LowerStr(s) == [i \in 1..Len(s) |-> Lower(s[i])]

\* str.isspace() on one character.
IsSpace(c) == c \in {" ", "\t", "\n", NBSP}

\* s.startswith(p)
StartsWith(s, p) == Len(s) >= Len(p) /\ SubSeq(s, 1, Len(p)) = p

\* s[k:] of Python (k characters dropped)
Drop(s, k) == SubSeq(s, k + 1, Len(s))

(***************************************************************************)
(* clean_phone_number                                                      *)
(***************************************************************************)
\* phone.replace('\xa0', ' ')
ReplaceNbsp(s) == [i \in 1..Len(s) |-> IF s[i] = NBSP THEN " " ELSE s[i]]

RECURSIVE LStrip(_)
LStrip(s) == IF s # <<>> /\ IsSpace(s[1]) THEN LStrip(Tail(s)) ELSE s

RECURSIVE RStrip(_)
RStrip(s) ==
    IF s # <<>> /\ IsSpace(s[Len(s)]) THEN RStrip(SubSeq(s, 1, Len(s) - 1)) ELSE s

\* str.strip()
Strip(s) == RStrip(LStrip(s))

\* The alternatives of the pattern (fax|e-?mail|U+0444 U+0430 U+043A U+0441|U+0442 U+0435 U+043B).
SplitTokens ==
    { <<"f", "a", "x">>,
      <<"e", "-", "m", "a", "i", "l">>,
      <<"e", "m", "a", "i", "l">>,
      <<"U+0444", "U+0430", "U+043A", "U+0441">>,
      <<"U+0442", "U+0435", "U+043B">> }

\* Whether the pattern matches at position i of s, under re.IGNORECASE.
TokenAt(s, i) ==
    \E t \in SplitTokens :
        /\ i + Len(t) - 1 <= Len(s)
        /\ LowerStr(SubSeq(s, i, i + Len(t) - 1)) = t

\* The position of the first match of the pattern in s from position i on,
\* and Len(s) + 1 when there is none.
RECURSIVE FirstToken(_, _)
FirstToken(s, i) ==
    IF i > Len(s) \/ TokenAt(s, i) THEN i ELSE FirstToken(s, i + 1)

\* re.split(pattern, s, flags=re.IGNORECASE)[0]: what precedes the first match,
\* and all of s when there is none.
SplitHead(s) == SubSeq(s, 1, FirstToken(s, 1) - 1)

\* re.sub(r'[^\d+]', '', s)
DigitsAndPlus(s) == SelectSeq(s, LAMBDA c : c \in Digits \/ c = "+")

\* s.count('+')
CountPlus(s) == Cardinality({i \in 1..Len(s) : s[i] = "+"})

\* if phone.count('+') > 1: phone = '+' + phone.replace('+', '')
CollapsePlus(s) ==
    IF CountPlus(s) > 1 THEN <<"+">> \o SelectSeq(s, LAMBDA c : c # "+") ELSE s

\* re.fullmatch(r'0\d{8,9}', s)
IsLocalForm(s) ==
    /\ Len(s) \in {9, 10}
    /\ s[1] = "0"
    /\ \A i \in 1..Len(s) : s[i] \in Digits

CountryCode == <<"+", "3", "5", "9">>

\* The country-code rules: the if / elif of the loop body.
AddCountryCode(s) ==
    IF StartsWith(s, CountryCode \o <<"0">>) THEN CountryCode \o Drop(s, 5)
    ELSE IF IsLocalForm(s) THEN CountryCode \o Drop(s, 1)
    ELSE s

\* One candidate through the loop body, up to the test that skips it.
NormalizePhone(phone) ==
    AddCountryCode(CollapsePlus(DigitsAndPlus(SplitHead(Strip(ReplaceNbsp(phone))))))

\* KeepPhone without the test of the length.
KeepPhone_NoLength(p) == StartsWith(p, <<"+">>)

\* The negation of the test before `continue`.
KeepPhone(p) == ~(Len(p) < 10 \/ ~StartsWith(p, <<"+">>))

\* The list clean_phones when the loop ends.
RECURSIVE CleanPhonesLoop(_)
CleanPhonesLoop(ps) ==
    IF ps = <<>> THEN <<>>
    ELSE LET p == NormalizePhone(Head(ps))
         IN  (IF KeepPhone(p) THEN <<p>> ELSE <<>>) \o CleanPhonesLoop(Tail(ps))

\* list(set(xs)): the elements of xs once each, in an order the caller cannot
\* rely on (the iteration order of a set of str changes with the hash seed).
ListOfSet(xs) ==
    LET S == Range(xs)
        n == Cardinality(S)
    IN  {l \in [1..n -> S] : Range(l) = S}

\* The lists clean_phone_number(ps) can return.
clean_phone_number(ps) ==
    IF ps = <<>> THEN {<<>>} ELSE ListOfSet(CleanPhonesLoop(ps))


(***************************************************************************)
(* clean_emails                                                            *)
(***************************************************************************)
\* s.split('.'): the segments between the dots, at least one.
RECURSIVE SplitDot(_)
SplitDot(s) ==
    IF \E i \in 1..Len(s) : s[i] = "."
    THEN LET p == CHOOSE i \in 1..Len(s) :
                      s[i] = "." /\ \A j \in 1..(i - 1) : s[j] # "."
         IN  <<SubSeq(s, 1, p - 1)>> \o SplitDot(Drop(s, p))
    ELSE <<s>>

\* '.'.join(parts)
RECURSIVE JoinDot(_)
JoinDot(parts) ==
    IF Len(parts) = 0 THEN <<>>
    ELSE IF Len(parts) = 1 THEN parts[1]
    ELSE parts[1] \o <<".">> \o JoinDot(Tail(parts))

\* s.replace(old, ''): the occurrences of old removed, found left to right
\* and not overlapping.
RECURSIVE Remove(_, _)
Remove(s, old) ==
    IF s = <<>> THEN <<>>
    ELSE IF StartsWith(s, old) THEN Remove(Drop(s, Len(old)), old)
    ELSE <<Head(s)>> \o Remove(Tail(s), old)

Web == <<"w", "e", "b">>
Www == <<"w", "w", "w">>

\* email_parts[-1].lower().replace('web', '').replace('www', '')
CleanLastPart(part) == Remove(Remove(LowerStr(part), Web), Www)

\* One email through the loop body.
CleanEmail(email) ==
    LET email_parts == SplitDot(email)
        n == Len(email_parts)
    IN  JoinDot([email_parts EXCEPT ![n] = CleanLastPart(email_parts[n])])

\* clean_emails(es)
clean_emails(es) ==
    IF es = <<>> THEN <<>> ELSE [i \in 1..Len(es) |-> CleanEmail(es[i])]

(***************************************************************************)
(* Inputs of the normalizers                                               *)
(***************************************************************************)
\* The strings of the docstring examples of clean_phone_number and clean_emails.
\* '02/987 02 35'
Phone_02_987 ==
    <<"0", "2", "/", "9", "8", "7", " ", "0", "2", " ", "3", "5">>

\* '0897 889 493'
Phone_0897 ==
    <<"0", "8", "9", "7", " ", "8", "8", "9", " ", "4", "9", "3">>

\* '+359 2 962 53 96'
Phone_359_2_962 ==
    <<"+", "3", "5", "9", " ", "2", " ", "9", "6", "2", " ", "5", "3", " ",
    "9", "6">>

\* 'тел.: 032 632 111'
Phone_tel_032 ==
    <<"U+0442", "U+0435", "U+043B", ".", ":", " ", "0", "3", "2", " ", "6",
    "3", "2", " ", "1", "1", "1">>

\* '+35929870235'
Out_35929870235 ==
    <<"+", "3", "5", "9", "2", "9", "8", "7", "0", "2", "3", "5">>

\* '+359897889493'
Out_359897889493 ==
    <<"+", "3", "5", "9", "8", "9", "7", "8", "8", "9", "4", "9", "3">>

\* '+35929625396'
Out_35929625396 ==
    <<"+", "3", "5", "9", "2", "9", "6", "2", "5", "3", "9", "6">>

\* '+35932632111'
Out_35932632111 ==
    <<"+", "3", "5", "9", "3", "2", "6", "3", "2", "1", "1", "1">>

\* 'info@company.web.bg'
Email_company_web_bg ==
    <<"i", "n", "f", "o", "@", "c", "o", "m", "p", "a", "n", "y", ".", "w",
    "e", "b", ".", "b", "g">>

\* 'contact@www.domain.com'
Email_www_domain_com ==
    <<"c", "o", "n", "t", "a", "c", "t", "@", "w", "w", "w", ".", "d", "o",
    "m", "a", "i", "n", ".", "c", "o", "m">>

\* 'info@company.bg'
Out_company_bg ==
    <<"i", "n", "f", "o", "@", "c", "o", "m", "p", "a", "n", "y", ".", "b",
    "g">>

\* 'contact@domain.com'
Out_domain_com ==
    <<"c", "o", "n", "t", "a", "c", "t", "@", "d", "o", "m", "a", "i", "n",
    ".", "c", "o", "m">>

\* What precedes the digits of a phone candidate.
PhoneLeads ==
    { <<>>,
      <<"+", "3", "5", "9", " ">>,
      <<"+", "3", "5", "9", " ", "(", "0", ")">>,
      <<"U+0442", "U+0435", "U+043B", ".", ":", " ">>,
      <<"+", "4", "4", " ">> }

\* The digits of a phone candidate, as the page writes them, and what may
\* follow them.
PhoneBodies ==
    { <<"0", "2", "/", "9", "8", "7", " ", "0", "2", " ", "3", "5">>,
      <<"0", "8", "9", "7", " ", "8", "8", "9", " ", "4", "9", "3">>,
      <<"2", " ", "9", "6", "2", " ", "5", "3", " ", "9", "6">>,
      <<"0", "3", "2", " ", "6", "3", "2", " ", "1", "1", "1">>,
      <<"1", "2">>,
      <<" ", "0", "2", NBSP, "9", "8", "7", " ", "0", "2", " ", "3",
        "5", " ", "F", "a", "x", " ", "0", "2", " ", "9", "8", "7",
        " ", "0", "2", " ", "3", "6", NBSP>>,
      <<"2", " ", "9", "6", "2", " ", "5", "3", " ", "9", "6", ",",
        " ", "+", "3", "5", "9", " ", "2", " ", "9", "6", "2", " ",
        "5", "3", " ", "9", "7">> }

PhoneCandidates == {l \o b : l \in PhoneLeads, b \in PhoneBodies}

\* An email candidate up to its last segments.
EmailHeads ==
    { <<"i", "n", "f", "o", "@", "c", "o", "m", "p", "a", "n", "y">>,
      <<"c", "o", "n", "t", "a", "c", "t", "@", "w", "w", "w", ".", "d", "o", "m", "a", "i", "n">>,
      <<"a", "@", "b">>,
      <<"I", "n", "f", "o", "@", "W", "e", "b">> }

\* The last segments of an email candidate.
EmailTails ==
    { <<".", "b", "g">>,
      <<".", "w", "e", "b", ".", "b", "g">>,
      <<".", "c", "o", "m">>,
      <<".", "w", "e", "b">>,
      <<".", "W", "W", "W">>,
      <<".", "w", "w", "e", "b", "e", "b">>,
      <<".", "w", "e", "w", "w", "w", "b">>,
      <<>> }

EmailCandidates == {h \o t : h \in EmailHeads, t \in EmailTails}

MaxPhones == 2
MaxEmails == 2

\* The lists of at most n elements of S.
ListsUpTo(S, n) == UNION {[1..k -> S] : k \in 0..n}


(***************************************************************************)
(* main.py: the label maps                                                 *)
(***************************************************************************)
\* The keys of label_map, in the order of the dict.
LabelKeys == <<"phone", "site", "street_address", "city", "country", "postal_code">>

label_map ==
    [ phone          |-> "phone number like +359 2 439 81 50 or starting with +359",
      site           |-> "website address like www.bank.bg or www.domain.com",
      street_address |-> "street address that contains street name and number like '16 Srebarna Str.'",
      city           |-> "city name in Bulgaria (e.g. Sofia, Plovdiv)",
      country        |-> "country name like Bulgaria",
      postal_code    |-> "numeric postal code" ]

email_label == [email |-> "email address with @ symbol, e.g. info@company.bg"]

\* list(label_map.values())
LabelValues == [i \in 1..Len(LabelKeys) |-> label_map[LabelKeys[i]]]

\* list(email_label.values())
EmailLabelValues == <<email_label.email>>

\* {v: k for k, v in label_map.items()}: a later key replaces an earlier one
\* with the same description.
reverse_map ==
    [ v \in Range(LabelValues) |->
        LabelKeys[CHOOSE i \in 1..Len(LabelKeys) :
                      /\ LabelValues[i] = v
                      /\ \A j \in (i + 1)..Len(LabelKeys) : LabelValues[j] # v] ]

\* ReverseGet with a key for the labels that are not in the map.
ReverseGet_Default(label) ==
    IF label \in DOMAIN reverse_map THEN reverse_map[label] ELSE "phone"

\* reverse_map.get(label).  The None of a missing label is written "": both
\* are falsy, and the value is only tested by `if key`.
ReverseGet(label) == IF label \in DOMAIN reverse_map THEN reverse_map[label] ELSE ""

(***************************************************************************)
(* Python values of more than one type: a str, a list, None                *)
(***************************************************************************)
PyStr(s) == [type |-> "str", val |-> s]
PyList(l) == [type |-> "list", val |-> l]
PyNone == [type |-> "none", val |-> <<>>]

\* bool(v): None, '' and [] are falsy.
Truthy(v) == v.type # "none" /\ v.val # <<>>

\* Or without the second operand.
Or_First(v, w) == v

\* v or w
Or(v, w) == IF Truthy(v) THEN v ELSE w

(***************************************************************************)
(* utils.py: the postal code and the street address                        *)
(***************************************************************************)
Letters ==
    { "a", "b", "c", "d", "e", "f", "g", "h", "i", "j", "k", "l", "m", "n", "o",
      "p", "q", "r", "s", "t", "u", "v", "w", "x", "y", "z",
      "A", "B", "C", "D", "E", "F", "G", "H", "I", "J", "K", "L", "M", "N", "O",
      "P", "Q", "R", "S", "T", "U", "V", "W", "X", "Y", "Z" }

\* Whether the regex class \w holds c.
IsWordChar(c) == c \in Letters \/ c \in Digits \/ c = "_"

\* Whether \w matches at position i of text; it does not outside the text.
WordAt(text, i) == i \in 1..Len(text) /\ IsWordChar(text[i])

\* Whether \b matches before position i of text.
WordBoundary(text, i) == WordAt(text, i - 1) # WordAt(text, i)

\* Whether \b\d{4}\b matches at position i of text.
PostalAt(text, i) ==
    /\ i + 3 <= Len(text)
    /\ WordBoundary(text, i)
    /\ \A j \in i..(i + 3) : text[j] \in Digits
    /\ WordBoundary(text, i + 4)

\* re.findall(r"\b\d{4}\b", text), from position i on: the matches left to
\* right, each search starting where the last match ended.
RECURSIVE FindAllPostal(_, _)
FindAllPostal(text, i) ==
    IF i > Len(text) THEN <<>>
    ELSE IF PostalAt(text, i)
         THEN <<SubSeq(text, i, i + 3)>> \o FindAllPostal(text, i + 4)
         ELSE FindAllPostal(text, i + 1)

extract_postal_code_fallback(text) ==
    LET matches == FindAllPostal(text, 1)
    IN  IF matches # <<>> THEN PyStr(matches[1]) ELSE PyNone

\* re.fullmatch(r"\d{4}", v)
IsFourDigits(v) == Len(v) = 4 /\ \A i \in 1..Len(v) : v[i] \in Digits

\* filter_postal_code with re.match in place of re.fullmatch: a longer string
\* that starts with four digits passes.
filter_postal_code_match(values) ==
    SelectSeq(values, LAMBDA v : Len(v) >= 4 /\ \A i \in 1..4 : v[i] \in Digits)

filter_postal_code(values) == SelectSeq(values, IsFourDigits)

StreetWords == { <<"s", "t", "r">>, <<"b", "l", "v", "d">>, <<"b", "u", "l", ".">> }

\* word in v
Contains(v, word) ==
    \E i \in 1..Len(v) :
        i + Len(word) - 1 <= Len(v) /\ SubSeq(v, i, i + Len(word) - 1) = word

HasStreetWord(v) == \E word \in StreetWords : Contains(LowerStr(v), word)

filter_street_address(values) == SelectSeq(values, HasStreetWord)

(***************************************************************************)
(* main.py: extract_single_company_info                                    *)
(***************************************************************************)
\* The values of a field that was not detected.
\* 'No phones detected'
NoPhones ==
    <<"N", "o", " ", "p", "h", "o", "n", "e", "s", " ", "d", "e", "t", "e",
    "c", "t", "e", "d">>

\* 'No emails detected'
NoEmails ==
    <<"N", "o", " ", "e", "m", "a", "i", "l", "s", " ", "d", "e", "t", "e",
    "c", "t", "e", "d">>

\* 'No website detected'
NoWebsite ==
    <<"N", "o", " ", "w", "e", "b", "s", "i", "t", "e", " ", "d", "e", "t",
    "e", "c", "t", "e", "d">>

\* 'No street address detected'
NoStreetAddress ==
    <<"N", "o", " ", "s", "t", "r", "e", "e", "t", " ", "a", "d", "d", "r",
    "e", "s", "s", " ", "d", "e", "t", "e", "c", "t", "e", "d">>

\* 'No city detected'
NoCity ==
    <<"N", "o", " ", "c", "i", "t", "y", " ", "d", "e", "t", "e", "c", "t",
    "e", "d">>

\* 'No country detected'
NoCountry ==
    <<"N", "o", " ", "c", "o", "u", "n", "t", "r", "y", " ", "d", "e", "t",
    "e", "c", "t", "e", "d">>

\* 'No postal code detected'
NoPostalCode ==
    <<"N", "o", " ", "p", "o", "s", "t", "a", "l", " ", "c", "o", "d", "e",
    " ", "d", "e", "t", "e", "c", "t", "e", "d">>


COMPANY_NAME == "U+0421ompany name"

Columns ==
    { COMPANY_NAME, "Phone numbers", "Emails", "Websites", "Street address",
      "City", "Country", "Postal code" }

\* text.split(',')[0]
BeforeComma(text) ==
    IF \E i \in 1..Len(text) : text[i] = ","
    THEN LET p == CHOOSE i \in 1..Len(text) :
                      text[i] = "," /\ \A j \in 1..(i - 1) : text[j] # ","
         IN  SubSeq(text, 1, p - 1)
    ELSE text

\* [e['text'] for e in es]
TextsOf(es) == [i \in 1..Len(es) |-> es[i].text]

\* extracted = {key: [] for key in label_map}
EmptyExtracted == [key \in Range(LabelKeys) |-> <<>>]

\* The loop `for e in ents`, from the dict ex on.
RECURSIVE ClassifyLoop(_, _)
ClassifyLoop(es, ex) ==
    IF es = <<>> THEN ex
    ELSE LET e == Head(es)
             key == ReverseGet(e.label)
         IN  ClassifyLoop(Tail(es),
                          IF key # "" THEN [ex EXCEPT ![key] = Append(@, e.text)]
                          ELSE ex)

\* postal_candidates[0] if postal_candidates else extract_postal_code_fallback(text)
PostalCode(text, postal_candidates) ==
    IF postal_candidates # <<>> THEN PyStr(postal_candidates[1])
    ELSE extract_postal_code_fallback(text)

\* The dict extract_single_company_info returns, cleaned_phones being the list
\* clean_phone_number returned.
CompanyRecord(text, ex_emails, ex, cleaned_phones) ==
    LET cleaned_emails == clean_emails(ex_emails)
        address_candidates == filter_street_address(ex["street_address"])
        postal_candidates == filter_postal_code(ex["postal_code"])
        postal_code == PostalCode(text, postal_candidates)
    IN  [ c \in Columns |->
            CASE c = COMPANY_NAME -> PyStr(BeforeComma(text))
              [] c = "Phone numbers" -> Or(PyList(cleaned_phones), PyStr(NoPhones))
              [] c = "Emails" -> Or(PyList(cleaned_emails), PyStr(NoEmails))
              [] c = "Websites" -> Or(PyList(ex["site"]), PyStr(NoWebsite))
              [] c = "Street address" ->
                    IF address_candidates # <<>> THEN PyStr(address_candidates[1])
                    ELSE PyStr(NoStreetAddress)
              [] c = "City" ->
                    IF ex["city"] # <<>> THEN PyStr(ex["city"][1]) ELSE PyStr(NoCity)
              [] c = "Country" ->
                    IF ex["country"] # <<>> THEN PyStr(ex["country"][1])
                    ELSE PyStr(NoCountry)
              [] c = "Postal code" -> Or(postal_code, PyStr(NoPostalCode)) ]

(***************************************************************************)
(* The rows and the responses of the recognizer                            *)
(***************************************************************************)
\* 'ABC, Sofia 1202, 16 Srebarna Str.'
Row_ABC ==
    <<"A", "B", "C", ",", " ", "S", "o", "f", "i", "a", " ", "1", "2", "0",
    "2", ",", " ", "1", "6", " ", "S", "r", "e", "b", "a", "r", "n", "a", " ",
    "S", "t", "r", ".">>

\* 'XYZ Sofia1000 12345 2024'
Row_XYZ ==
    <<"X", "Y", "Z", " ", "S", "o", "f", "i", "a", "1", "0", "0", "0", " ",
    "1", "2", "3", "4", "5", " ", "2", "0", "2", "4">>

\* 'no digits here'
Row_NoDigits ==
    <<"n", "o", " ", "d", "i", "g", "i", "t", "s", " ", "h", "e", "r", "e">>

\* 'Q_1000, 9000-1000'
Row_Q ==
    <<"Q", "_", "1", "0", "0", "0", ",", " ", "9", "0", "0", "0", "-", "1",
    "0", "0", "0">>

\* '1000'
T_1000 ==
    <<"1", "0", "0", "0">>

\* '9000'
T_9000 ==
    <<"9", "0", "0", "0">>

\* '12345'
T_12345 ==
    <<"1", "2", "3", "4", "5">>

\* '123'
T_123 ==
    <<"1", "2", "3">>

\* '12 Main Str.'
T_MainStr ==
    <<"1", "2", " ", "M", "a", "i", "n", " ", "S", "t", "r", ".">>

\* 'Sofia'
T_Sofia ==
    <<"S", "o", "f", "i", "a">>

\* 'Plovdiv'
T_Plovdiv ==
    <<"P", "l", "o", "v", "d", "i", "v">>

\* 'Bulgaria'
T_Bulgaria ==
    <<"B", "u", "l", "g", "a", "r", "i", "a">>

\* 'www.abc.bg'
T_Site ==
    <<"w", "w", "w", ".", "a", "b", "c", ".", "b", "g">>

\* '+35921234567'
T_Phone ==
    <<"+", "3", "5", "9", "2", "1", "2", "3", "4", "5", "6", "7">>

\* '12'
T_12 ==
    <<"1", "2">>

\* 'info@abc.bg'
T_Email ==
    <<"i", "n", "f", "o", "@", "a", "b", "c", ".", "b", "g">>

\* 'INFO@ABC.WEB'
T_EmailWeb ==
    <<"I", "N", "F", "O", "@", "A", "B", "C", ".", "W", "E", "B">>

\* 'ABC'
T_ABC ==
    <<"A", "B", "C">>


Ent(label, text) == [label |-> label, text |-> text]

Rows == {Row_ABC, Row_XYZ, Row_NoDigits, Row_Q}

\* What the recognizer can find in a row when asked for the six labels: a
\* span under one of them, under the email label, or under a label nobody
\* asked for.
LabelMatches ==
    { Ent(label_map.postal_code, T_1000), Ent(label_map.postal_code, T_9000),
      Ent(label_map.postal_code, T_12345), Ent(label_map.postal_code, T_123),
      Ent(label_map.street_address, T_MainStr), Ent(label_map.street_address, T_Sofia),
      Ent(label_map.city, T_Sofia), Ent(label_map.city, T_Plovdiv),
      Ent(label_map.country, T_Bulgaria),
      Ent(label_map.site, T_Site),
      Ent(label_map.phone, T_Phone), Ent(label_map.phone, T_12),
      Ent(email_label.email, T_Email),
      Ent("person", T_ABC) }

MaxEnts == 2

LabelResponses == ListsUpTo(LabelMatches, MaxEnts)

EmailResponses ==
    { <<>>,
      <<Ent(email_label.email, T_Email)>>,
      <<Ent(email_label.email, T_EmailWeb), Ent(email_label.email, T_Email)>> }

\* The rows and the responses of a batch of several rows.
BatchRows == {Row_ABC, Row_NoDigits}

BatchLabelResponses ==
    { <<>>, <<Ent(label_map.postal_code, T_9000), Ent(label_map.city, T_Sofia)>> }

BatchEmailResponses == { <<>>, <<Ent(email_label.email, T_Email)>> }

MaxRows == 2

(***************************************************************************)
(* The normalizers applied to a list, and again to their own result        *)
(***************************************************************************)
IdlePipe ==
    /\ texts = <<>>
    /\ row = 0
    /\ extracted_emails = <<>>
    /\ ents = <<>>
    /\ extracted = EmptyExtracted
    /\ acc = <<>>
    /\ data = <<>>
    /\ csv = [written |-> FALSE, rows |-> <<>>]
    /\ calls = <<>>

IdleNorm ==
    /\ phones = <<>>
    /\ phones_out = <<>>
    /\ phones_again = <<>>
    /\ emails = <<>>
    /\ emails_out = <<>>
    /\ emails_again = <<>>

InitPhone ==
    /\ pc = "clean"
    /\ phones \in ListsUpTo(PhoneCandidates, MaxPhones)
    /\ phones_out = <<>>
    /\ phones_again = <<>>
    /\ emails = <<>>
    /\ emails_out = <<>>
    /\ emails_again = <<>>
    /\ IdlePipe

CleanPhones ==
    /\ pc = "clean"
    /\ phones_out' \in clean_phone_number(phones)
    /\ pc' = "cleaned"
    /\ UNCHANGED <<phones, phones_again, emails, emails_out, emails_again, pipeVars>>

CleanPhonesAgain ==
    /\ pc = "cleaned"
    /\ phones_again' \in clean_phone_number(phones_out)
    /\ pc' = "recleaned"
    /\ UNCHANGED <<phones, phones_out, emails, emails_out, emails_again, pipeVars>>

NextPhone == CleanPhones \/ CleanPhonesAgain

SpecPhone == InitPhone /\ [][NextPhone]_vars

InitEmail ==
    /\ pc = "clean"
    /\ emails \in ListsUpTo(EmailCandidates, MaxEmails)
    /\ emails_out = <<>>
    /\ emails_again = <<>>
    /\ phones = <<>>
    /\ phones_out = <<>>
    /\ phones_again = <<>>
    /\ IdlePipe

CleanEmails ==
    /\ pc = "clean"
    /\ emails_out' = clean_emails(emails)
    /\ pc' = "cleaned"
    /\ UNCHANGED <<emails, emails_again, phones, phones_out, phones_again, pipeVars>>

CleanEmailsAgain ==
    /\ pc = "cleaned"
    /\ emails_again' = clean_emails(emails_out)
    /\ pc' = "recleaned"
    /\ UNCHANGED <<emails, emails_out, phones, phones_out, phones_again, pipeVars>>

NextEmail == CleanEmails \/ CleanEmailsAgain

SpecEmail == InitEmail /\ [][NextEmail]_vars

(***************************************************************************)
(* main.py: main, extract_companies_info and the calls of the recognizer   *)
(***************************************************************************)
\* One invocation of model.predict_entities, as the recognizer sees it.
Call(text, labels, raised, result) ==
    [text |-> text, labels |-> labels, raised |-> raised, result |-> result]

\* The comprehension from the last row to the first.
CurrentText_Reversed == texts[Len(texts) + 1 - row]

\* for text in texts: the row in work.
CurrentText == texts[row]

\* main calls extract_companies_info(texts); the comprehension starts.
CallExtractCompaniesInfo ==
    /\ pc = "main"
    /\ row' = 1
    /\ acc' = <<>>
    /\ pc' = IF texts # <<>> THEN "predict_email" ELSE "return"
    /\ UNCHANGED <<normVars, texts, extracted_emails, ents, extracted, data, csv, calls>>

\* The first call of the recognizer on the row: a response of E comes back.
PredictEmail(E) ==
    /\ pc = "predict_email"
    /\ \E email_ents \in E :
        /\ extracted_emails' = (IF email_ents # <<>> THEN TextsOf(email_ents) ELSE <<>>)
        /\ calls' = Append(calls, Call(CurrentText, EmailLabelValues, FALSE, email_ents))
    /\ pc' = "predict_labels"
    /\ UNCHANGED <<normVars, texts, row, ents, extracted, acc, data, csv>>

\* The second call of the recognizer on the row, and the loop that sorts the
\* response by key.
PredictEntities(L) ==
    /\ pc = "predict_labels"
    /\ \E response \in L :
        /\ ents' = response
        /\ extracted' = ClassifyLoop(response, EmptyExtracted)
        /\ calls' = Append(calls, Call(CurrentText, LabelValues, FALSE, response))
    /\ pc' = "build"
    /\ UNCHANGED <<normVars, texts, row, extracted_emails, acc, data, csv>>

\* An exception caught in the comprehension: the row is left out and the next
\* one is taken.
Propagate_SkipRow ==
    /\ row' = row + 1
    /\ pc' = IF row < Len(texts) THEN "predict_email" ELSE "return"
    /\ UNCHANGED <<normVars, texts, extracted_emails, ents, extracted, acc, data, csv>>

\* What an exception that nothing catches does: it leaves
\* extract_single_company_info, the comprehension and main.
Propagate ==
    /\ pc' = "failed"
    /\ UNCHANGED <<normVars, texts, row, extracted_emails, ents, extracted, acc, data, csv>>

\* The first call of the recognizer raises.
PredictEmailRaises ==
    /\ pc = "predict_email"
    /\ calls' = Append(calls, Call(CurrentText, EmailLabelValues, TRUE, <<>>))
    /\ Propagate

\* The second call of the recognizer raises.
PredictEntitiesRaises ==
    /\ pc = "predict_labels"
    /\ calls' = Append(calls, Call(CurrentText, LabelValues, TRUE, <<>>))
    /\ Propagate

\* The rest of extract_single_company_info; the comprehension appends the
\* dict and goes to the next row.
BuildRecord ==
    /\ pc = "build"
    /\ \E cleaned_phones \in clean_phone_number(extracted["phone"]) :
        acc' = Append(acc, CompanyRecord(CurrentText, extracted_emails, extracted,
                                         cleaned_phones))
    /\ row' = row + 1
    /\ pc' = IF row < Len(texts) THEN "predict_email" ELSE "return"
    /\ UNCHANGED <<normVars, texts, extracted_emails, ents, extracted, data, csv, calls>>

\* extract_companies_info returns the list; main writes it to the file.
SaveCsv ==
    /\ pc = "return"
    /\ data' = acc
    /\ csv' = [written |-> TRUE, rows |-> acc]
    /\ pc' = "done"
    /\ UNCHANGED <<normVars, texts, row, extracted_emails, ents, extracted, acc, calls>>

Next(E, L) ==
    \/ CallExtractCompaniesInfo
    \/ PredictEmail(E)
    \/ PredictEmailRaises
    \/ PredictEntities(L)
    \/ PredictEntitiesRaises
    \/ BuildRecord
    \/ SaveCsv

InitPipe ==
    /\ pc = "main"
    /\ IdleNorm
    /\ row = 0
    /\ extracted_emails = <<>>
    /\ ents = <<>>
    /\ extracted = EmptyExtracted
    /\ acc = <<>>
    /\ data = <<>>
    /\ csv = [written |-> FALSE, rows |-> <<>>]
    /\ calls = <<>>

\* One row, and every response of the recognizer.
InitRecord == InitPipe /\ texts \in {<<t>> : t \in Rows}

SpecRecord == InitRecord /\ [][Next(EmailResponses, LabelResponses)]_vars

\* A batch of rows, and a few responses of the recognizer.
InitBatch == InitPipe /\ texts \in ListsUpTo(BatchRows, MaxRows)

SpecBatch == InitBatch /\ [][Next(BatchEmailResponses, BatchLabelResponses)]_vars

(***************************************************************************)
(* Properties of clean_phone_number (SpecPhone)                            *)
(***************************************************************************)
\* Whether p is +359 and then 9 to 10 digits.
IsPlus359Form(p) ==
    /\ StartsWith(p, CountryCode)
    /\ Len(p) - Len(CountryCode) \in 9..10
    /\ \A k \in (Len(CountryCode) + 1)..Len(p) : p[k] \in Digits

\* Whether p is a + and then at least 9 digits.
IsPlusDigitsForm(p) ==
    /\ Len(p) >= 10
    /\ p[1] = "+"
    /\ \A k \in 2..Len(p) : p[k] \in Digits

NoDuplicates(l) == \A i, j \in 1..Len(l) : l[i] = l[j] => i = j

C3_DocstringExamples ==
    pc \in {"cleaned", "recleaned"} =>
        /\ phones = <<Phone_02_987, Phone_0897>> =>
              /\ Len(phones_out) = 2
              /\ Range(phones_out) = {Out_35929870235, Out_359897889493}
        /\ phones = <<Phone_359_2_962, Phone_tel_032>> =>
              /\ Len(phones_out) = 2
              /\ Range(phones_out) = {Out_35929625396, Out_35932632111}
        /\ phones = <<>> => phones_out = <<>>

\* C5: clean_phone_number applied to its own result returns the same set of
\* strings.
C5_PhoneIdempotent ==
    pc = "recleaned" => Range(phones_again) = Range(phones_out)

(***************************************************************************)
(* Properties of clean_emails (SpecEmail)                                  *)
(***************************************************************************)
\* C4: the docstring examples of clean_emails: the web and www fragments
\* leave the domain.
C4_DocstringExamples ==
    pc \in {"cleaned", "recleaned"} =>
        /\ emails = <<Email_company_web_bg>> => emails_out = <<Out_company_bg>>
        /\ emails = <<Email_www_domain_com>> => emails_out = <<Out_domain_com>>
        /\ emails = <<Email_company_web_bg, Email_www_domain_com>> =>
              emails_out = <<Out_company_bg, Out_domain_com>>

\* C6: clean_emails applied to its own result returns it, element by
\* element.
C6_EmailIdempotent ==
    pc = "recleaned" => emails_again = emails_out

(***************************************************************************)
(* Properties of extract_single_company_info (SpecRecord)                  *)
(***************************************************************************)
\* A list that is not empty, or the placeholder.
ListOrPlaceholder(v, placeholder) ==
    \/ v.type = "list" /\ v.val # <<>>
    \/ v.type = "str" /\ v.val = placeholder

\* A str that is one of the candidates, or the placeholder.
StrOrPlaceholder(v, candidates, placeholder) ==
    /\ v.type = "str"
    /\ v.val = placeholder \/ v.val \in candidates

\* The row has been built and nothing has touched the locals since.
RowBuilt == pc \in {"return", "done"} /\ acc # <<>>

PostalMatches == SelectSeq(ents, LAMBDA e : e.label = label_map.postal_code)

\* A run of exactly four digits at position p of text that no word
\* character touches.
StandaloneAt(text, p) ==
    /\ p + 3 <= Len(text)
    /\ \A j \in p..(p + 3) : text[j] \in Digits
    /\ p = 1 \/ ~IsWordChar(text[p - 1])
    /\ p + 3 = Len(text) \/ ~IsWordChar(text[p + 4])

\* C7: the postal code is the first candidate of the recognizer that is
\* exactly four digits; with no such candidate, the first standalone run of
\* four digits of the row; with no such run, the placeholder.
C7_PostalPriority ==
    RowBuilt =>
        LET text == texts[Len(acc)]
            got == acc[Len(acc)]["Postal code"]
            valid == {i \in 1..Len(PostalMatches) :
                         /\ Len(PostalMatches[i].text) = 4
                         /\ \A k \in 1..4 : PostalMatches[i].text[k] \in Digits}
            runs == {p \in 1..Len(text) : StandaloneAt(text, p)}
        IN  /\ got.type = "str"
            /\ IF valid # {}
               THEN \E i \in valid :
                        /\ \A j \in valid : i <= j
                        /\ got.val = PostalMatches[i].text
               ELSE IF runs # {}
               THEN \E p \in runs :
                        /\ \A q \in runs : p <= q
                        /\ got.val = SubSeq(text, p, p + 3)
               ELSE got.val = NoPostalCode

\* The recognizer gave a candidate of five digits and then one of four, and
\* the row holds a standalone run of four digits that is another number: the
\* record holds the candidate of four digits.
C7_Witness ==
    /\ RowBuilt
    /\ Len(PostalMatches) = 2
    /\ PostalMatches[1].text = T_12345
    /\ PostalMatches[2].text = T_9000
    /\ texts[1] = Row_ABC
    /\ acc[1]["Postal code"].val = T_9000

\* C10: each candidate list is the texts of the matches of the second
\* response that carry the description of its key, in the order of the
\* response and with duplicates; a match under another label is in no list.
C10_ClassifiedByLabel ==
    /\ DOMAIN extracted = Range(LabelKeys)
    /\ \A key \in Range(LabelKeys) :
          extracted[key] = TextsOf(SelectSeq(ents, LAMBDA e : e.label = label_map[key]))

\* The response held a match under the email label and then a city: the
\* match under the email label is in no list, the city is alone in its list.
C10_Witness ==
    /\ pc = "build"
    /\ Len(ents) = 2
    /\ ents[1].label = email_label.email
    /\ ents[2].label = label_map.city
    /\ extracted["city"] = <<ents[2].text>>
    /\ \A key \in Range(LabelKeys) \ {"city"} : extracted[key] = <<>>

(***************************************************************************)
(* Properties of extract_companies_info and main (SpecBatch)               *)
(***************************************************************************)
\* The records extract_single_company_info can return for the row text when
\* the recognizer answers email_call and then label_call.
RecordsOf(text, email_call, label_call) ==
    LET ex == ClassifyLoop(label_call.result, EmptyExtracted)
    IN  { CompanyRecord(text, TextsOf(email_call.result), ex, cleaned_phones) :
            cleaned_phones \in clean_phone_number(ex["phone"]) }

\* C8: the j-th invocation is on row (j + 1) \div 2, with the email label when
\* j is odd and the six labels when j is even; a record is built after the two
\* invocations of its row and before any of the next row; at the end there
\* are 2N invocations and N records, the i-th built from the i-th row.
C8_TwoCallsPerRowInOrder ==
    /\ \A j \in 1..Len(calls) :
        /\ (j + 1) \div 2 \in 1..Len(texts)
        /\ calls[j].text = texts[(j + 1) \div 2]
        /\ calls[j].labels = IF j % 2 = 1 THEN EmailLabelValues ELSE LabelValues
    /\ Len(calls) \in {2 * Len(acc), 2 * Len(acc) + 1, 2 * Len(acc) + 2}
    /\ pc = "done" =>
        /\ Len(calls) = 2 * Len(texts)
        /\ Len(data) = Len(texts)
        /\ \A i \in 1..Len(texts) :
              data[i] \in RecordsOf(texts[i], calls[2 * i - 1], calls[2 * i])

\* A batch of two different rows is done.
C8_Witness ==
    /\ pc = "done"
    /\ Len(texts) = 2
    /\ texts[1] # texts[2]
    /\ Len(calls) = 4
    /\ calls[3].result # <<>>

\* C9: once an invocation of the recognizer has failed it is the last one,
\* the program has stopped, the records are those of the rows before the row
\* of the failure, and the file is not written.
C9_FailureIsFatal ==
    \A j \in 1..Len(calls) :
        calls[j].raised =>
            /\ j = Len(calls)
            /\ pc = "failed"
            /\ Len(acc) = (j + 1) \div 2 - 1
            /\ data = <<>>
            /\ csv = [written |-> FALSE, rows |-> <<>>]

\* The second invocation on the second row failed: the record of the first
\* row was built and is in no file.
C9_Witness ==
    /\ pc = "failed"
    /\ Len(calls) = 4
    /\ calls[4].raised
    /\ Len(acc) = 1
    /\ ~csv.written

=============================================================================
